---- MODULE Spec2Model ----
(***************************************************************************)
(* A model of backend/main.py: the label OCR pipeline.                     *)
(*                                                                         *)
(*   detect_label_region  picks the label's bounding box among contours    *)
(*   crop_label           pads and clamps the box, slices the photo        *)
(*   segment_text_lines   Otsu binarisation, row projection, bands, crops  *)
(*   run_rec_on_lines     line-only recognition of each crop               *)
(*   run_fallback_ocr     full detect+recognise, result normalisation      *)
(*   process_image        the /ocr handler choosing among the three paths  *)
(*                                                                         *)
(* Numbers the code holds as floats are held here as exact rationals:      *)
(* a fraction f is a pair <<num, den>> and  a < b * f  is compared by      *)
(* cross-multiplication.  Confidences are held in hundredths.              *)
(***************************************************************************)
EXTENDS Integers, Sequences, FiniteSets, TLC

VARIABLES
    pc,          \* position of the function under execution
    img,         \* the decoded photo (NoImage when the upload does not decode)
    contours,    \* what cv2.findContours returned for the mask of img
    bbox,        \* detect_label_region: best so far / the returned box
    best_area,   \* detect_label_region: best_area
    rect,        \* crop_label: the slice bounds <<x1, y1, x2, y2>>
    label_img,   \* the cropped label
    binary,      \* segment_text_lines: the Otsu-binarised label
    text_rows,   \* segment_text_lines: text_rows, one BOOLEAN per row
    bands,       \* segment_text_lines: bands, a sequence of <<start, end>>
    line_crops,  \* segment_text_lines: the slice bounds of each line crop
    idx,         \* position of the loop under execution
    resp,        \* the page results the collaborator invoked last returned
    output,      \* the RecognitionItems collected so far
    path,        \* process_image: the strategy tag
    calls,       \* the collaborator invocations of this request, in order
    result       \* what the function under execution returned or raised

vars == <<pc, img, contours, bbox, best_area, rect, label_img, binary,
          text_rows, bands, line_crops, idx, resp, output, path, calls, result>>

NoResult == [kind |-> "none", err |-> "", results |-> <<>>, path |-> ""]

(***************************************************************************)
(* Bounds of the model.                                                    *)
(***************************************************************************)
MaxContours == 3
MaxStripes == 3
MaxLen == 3
MaxPages == 2

Min(a, b) == IF a <= b THEN a ELSE b
Max(a, b) == IF a >= b THEN a ELSE b

\* int(n * f) for n >= 0 and a fraction f = <<num, den>>: truncation.
IntOfProduct(n, f) == (n * f[1]) \div f[2]

\* Sequences over S of length at most n.
SeqUpTo(S, n) == UNION {[1..k -> S] : k \in 0..n}

(***************************************************************************)
(* Images.  An image is run-length encoded in both directions: a sequence  *)
(* of stripes [n |-> rows, runs |-> row], every row of a stripe being the  *)
(* same sequence of runs [n |-> pixels, c |-> colour].  A colour is        *)
(* <<b, g, r>>.  The heights of the stripes sum to h, the lengths of the   *)
(* runs of every row to w.                                                 *)
(***************************************************************************)
NoImage == [w |-> 0, h |-> 0, stripes |-> <<>>]

RECURSIVE SumN(_)
SumN(s) == IF s = <<>> THEN 0 ELSE Head(s).n + SumN(Tail(s))

\* s[a:b] of a run-length encoded sequence s, 0 <= a, as Python slices it.
RECURSIVE SliceRle(_, _, _)
SliceRle(s, a, b) ==
    IF s = <<>> \/ b <= 0 \/ b <= a THEN <<>>
    ELSE LET n == Head(s).n
             lo == Max(a, 0)
             hi == Min(b, n)
             rest == SliceRle(Tail(s), a - n, b - n)
         IN IF hi > lo THEN <<[Head(s) EXCEPT !.n = hi - lo]>> \o rest ELSE rest

\* image[y1:y2, x1:x2]
SliceImage(image, x1, y1, x2, y2) ==
    LET rows == SliceRle(image.stripes, y1, y2)
        cut == [k \in 1..Len(rows) |->
                   [rows[k] EXCEPT !.runs = SliceRle(rows[k].runs, x1, x2)]]
    IN [w |-> IF cut = <<>> THEN Max(0, Min(x2, image.w) - x1) ELSE SumN(cut[1].runs),
        h |-> SumN(cut),
        stripes |-> cut]

(***************************************************************************)
(* detect_label_region.  A contour is [area, x, y, w, h]: cv2.contourArea  *)
(* and cv2.boundingRect of it.                                             *)
(***************************************************************************)
None == <<>>

LABEL_MIN_AREA_FRACTION == <<1, 100>>
LABEL_MIN_SOLIDITY == <<7, 10>>
LABEL_ASPECT_RANGE == <<(<<1, 2>>), (<<5, 1>>)>>
LABEL_CROP_PAD == <<2, 100>>

\* The loop body, by a slip: >= lets a later contour of equal area win.
ContourStepTiesLast(cnt, img_area, best, barea) ==
    IF cnt.area * LABEL_MIN_AREA_FRACTION[2] < img_area * LABEL_MIN_AREA_FRACTION[1]
    THEN <<best, barea>>
    ELSE IF cnt.w * cnt.h = 0 THEN <<best, barea>>
    ELSE IF cnt.area * LABEL_MIN_SOLIDITY[2] < LABEL_MIN_SOLIDITY[1] * (cnt.w * cnt.h)
    THEN <<best, barea>>
    ELSE IF \/ cnt.w * LABEL_ASPECT_RANGE[1][2] < LABEL_ASPECT_RANGE[1][1] * cnt.h
            \/ cnt.w * LABEL_ASPECT_RANGE[2][2] > LABEL_ASPECT_RANGE[2][1] * cnt.h
    THEN <<best, barea>>
    ELSE IF cnt.area >= barea THEN <<(<<cnt.x, cnt.y, cnt.w, cnt.h>>), cnt.area>>
    ELSE <<best, barea>>

\* One iteration of the loop over contours: the new <<best, best_area>>.
ContourStep(cnt, img_area, best, barea) ==
    IF cnt.area * LABEL_MIN_AREA_FRACTION[2] < img_area * LABEL_MIN_AREA_FRACTION[1]
    THEN <<best, barea>>                                   \* area < min_area
    ELSE IF cnt.w * cnt.h = 0 THEN <<best, barea>>         \* rect_area == 0
    ELSE IF cnt.area * LABEL_MIN_SOLIDITY[2] < LABEL_MIN_SOLIDITY[1] * (cnt.w * cnt.h)
    THEN <<best, barea>>                                   \* solidity < 0.7
    ELSE IF \/ cnt.w * LABEL_ASPECT_RANGE[1][2] < LABEL_ASPECT_RANGE[1][1] * cnt.h
            \/ cnt.w * LABEL_ASPECT_RANGE[2][2] > LABEL_ASPECT_RANGE[2][1] * cnt.h
    THEN <<best, barea>>                                   \* aspect out of range
    ELSE IF cnt.area > barea THEN <<(<<cnt.x, cnt.y, cnt.w, cnt.h>>), cnt.area>>
    ELSE <<best, barea>>

RECURSIVE DetectLoop(_, _, _, _)
DetectLoop(cs, img_area, best, barea) ==
    IF cs = <<>> THEN best
    ELSE LET st == ContourStep(Head(cs), img_area, best, barea)
         IN DetectLoop(Tail(cs), img_area, st[1], st[2])

\* detect_label_region(img), given the contours of img's mask.
detect_label_region(image, cs) ==
    IF cs = <<>> THEN None ELSE DetectLoop(cs, image.h * image.w, None, 0)

Black == <<0, 0, 0>>
White == <<255, 255, 255>>
Pink == <<190, 180, 230>>
Dark == <<40, 40, 40>>
NearBlack == <<4, 0, 0>>
Palette == {Black, White, Pink, Dark, NearBlack}

\* A w x h image of one colour.
Uniform(w, h, c) ==
    [w |-> w, h |-> h, stripes |-> <<[n |-> h, runs |-> <<[n |-> w, c |-> c]>>]>>]

Contour(a, x, y, w, h) == [area |-> a, x |-> x, y |-> y, w |-> w, h |-> h]

\* The photo of the detector's runs, and contours in it: two of the same
\* largest area, a larger one, and one at each side of every threshold.
DetImage == Uniform(100, 80, Pink)
ContourPool ==
    { Contour(2000, 10, 10, 50, 40),   \* passes
      Contour(2000, 40, 30, 50, 40),   \* passes, same area, another place
      Contour(3000, 0, 0, 60, 60),     \* passes, larger
      Contour(79, 0, 0, 10, 8),        \* area just under 1% of 8000
      Contour(80, 5, 5, 10, 8),        \* area exactly 1%
      Contour(1399, 0, 0, 50, 40),     \* solidity just under 0.7
      Contour(1400, 20, 20, 50, 40),   \* solidity exactly 0.7
      Contour(3600, 0, 0, 100, 40),    \* area above, aspect 2.5
      Contour(510, 0, 0, 51, 10),      \* aspect just above 5
      Contour(190, 0, 0, 10, 21) }     \* aspect just under 0.5

DetInit ==
    /\ pc = "det_start"
    /\ img = DetImage
    /\ contours \in SeqUpTo(ContourPool, MaxContours)
    /\ bbox = None /\ best_area = 0 /\ rect = <<>> /\ label_img = NoImage
    /\ binary = NoImage /\ text_rows = <<>> /\ bands = <<>> /\ line_crops = <<>>
    /\ idx = 0 /\ resp = <<>> /\ output = <<>> /\ path = "" /\ calls = <<>>
    /\ result = NoResult

\* if not contours: return None
DetNoContours ==
    /\ pc = "det_start" /\ contours = <<>>
    /\ pc' = "det_done" /\ bbox' = None
    /\ UNCHANGED <<img, contours, best_area, rect, label_img, binary, text_rows,
                   bands, line_crops, idx, resp, output, path, calls, result>>

\* best = None; best_area = 0; enter the loop
DetEnter ==
    /\ pc = "det_start" /\ contours # <<>>
    /\ pc' = "det_loop" /\ bbox' = None /\ best_area' = 0 /\ idx' = 1
    /\ UNCHANGED <<img, contours, rect, label_img, binary, text_rows, bands,
                   line_crops, resp, output, path, calls, result>>

\* for cnt in contours: one iteration
DetContour ==
    /\ pc = "det_loop" /\ idx <= Len(contours)
    /\ LET st == ContourStep(contours[idx], img.h * img.w, bbox, best_area)
       IN bbox' = st[1] /\ best_area' = st[2]
    /\ idx' = idx + 1
    /\ UNCHANGED <<pc, img, contours, rect, label_img, binary, text_rows, bands,
                   line_crops, resp, output, path, calls, result>>

\* return best
DetReturn ==
    /\ pc = "det_loop" /\ idx > Len(contours)
    /\ pc' = "det_done"
    /\ UNCHANGED <<img, contours, bbox, best_area, rect, label_img, binary,
                   text_rows, bands, line_crops, idx, resp, output, path, calls,
                   result>>

DetNext == DetNoContours \/ DetEnter \/ DetContour \/ DetReturn

SpecDet == DetInit /\ [][DetNext]_vars

\* The three filters, as the claim states them.
PassesFilters(c, image) ==
    /\ c.area * 100 >= image.w * image.h
    /\ c.area * 10 >= 7 * (c.w * c.h)
    /\ 2 * c.w >= c.h /\ c.w <= 5 * c.h

Survivors == {i \in 1..Len(contours) : PassesFilters(contours[i], img)}
LargestSurvivors ==
    {i \in Survivors : \A j \in Survivors : contours[j].area <= contours[i].area}
FirstLargest == CHOOSE i \in LargestSurvivors : \A j \in LargestSurvivors : i <= j

crop_rect_unclamped(image, box) ==
    LET pad_x == IntOfProduct(box[3], LABEL_CROP_PAD)
        pad_y == IntOfProduct(box[4], LABEL_CROP_PAD)
    IN <<Max(0, box[1] - pad_x), Max(0, box[2] - pad_y),
         box[1] + box[3] + pad_x, box[2] + box[4] + pad_y>>

\* The bounds <<x1, y1, x2, y2>> crop_label slices.
crop_rect(image, box) ==
    LET pad_x == IntOfProduct(box[3], LABEL_CROP_PAD)
        pad_y == IntOfProduct(box[4], LABEL_CROP_PAD)
    IN <<Max(0, box[1] - pad_x), Max(0, box[2] - pad_y),
         Min(image.w, box[1] + box[3] + pad_x),
         Min(image.h, box[2] + box[4] + pad_y)>>

\* crop_label(img, bbox): img[y1:y2, x1:x2]
crop_label(image, box) ==
    LET r == crop_rect(image, box)
    IN SliceImage(image, r[1], r[2], r[3], r[4])

CropImages == {Uniform(120, 100, Pink), Uniform(400, 200, White)}
CropXs == {0, 1, 2, 50, 70, 250}
CropWs == {1, 49, 50, 100, 120, 150, 400}
CropYs == {0, 1, 3, 60}
CropHs == {1, 50, 99, 100, 200}
BoxesIn(image) ==
    {b \in CropXs \X CropYs \X CropWs \X CropHs :
        b[1] + b[3] <= image.w /\ b[2] + b[4] <= image.h}

CropInit ==
    /\ pc = "crop_start"
    /\ img \in CropImages
    /\ bbox \in BoxesIn(img)
    /\ contours = <<>> /\ best_area = 0 /\ rect = <<>> /\ label_img = NoImage
    /\ binary = NoImage /\ text_rows = <<>> /\ bands = <<>> /\ line_crops = <<>>
    /\ idx = 0 /\ resp = <<>> /\ output = <<>> /\ path = "" /\ calls = <<>>
    /\ result = NoResult

CropLabel ==
    /\ pc = "crop_start"
    /\ pc' = "crop_done"
    /\ rect' = crop_rect(img, bbox)
    /\ label_img' = crop_label(img, bbox)
    /\ UNCHANGED <<img, contours, bbox, best_area, binary, text_rows, bands,
                   line_crops, idx, resp, output, path, calls, result>>

CropNext == CropLabel

SpecCrop == CropInit /\ [][CropNext]_vars

\* C5: for a box with w > 0, h > 0 inside the image, the rectangle crop_label
\* slices is inside the image, non-empty, and contains the box.
C5_CropInsideNonEmptyContainsBox ==
    (/\ pc = "crop_done"
     /\ bbox[3] > 0 /\ bbox[4] > 0 /\ bbox[1] >= 0 /\ bbox[2] >= 0
     /\ bbox[1] + bbox[3] <= img.w /\ bbox[2] + bbox[4] <= img.h)
    => /\ 0 <= rect[1] /\ rect[1] < rect[3] /\ rect[3] <= img.w
       /\ 0 <= rect[2] /\ rect[2] < rect[4] /\ rect[4] <= img.h
       /\ rect[1] <= bbox[1] /\ rect[2] <= bbox[2]
       /\ rect[3] >= bbox[1] + bbox[3] /\ rect[4] >= bbox[2] + bbox[4]
       /\ label_img.w = rect[3] - rect[1] /\ label_img.h = rect[4] - rect[2]

\* A box whose padding is cut at the right edge and kept at the left.
C5_Witness ==
    /\ pc = "crop_done"
    /\ IntOfProduct(bbox[3], LABEL_CROP_PAD) > 0
    /\ bbox[1] + bbox[3] + IntOfProduct(bbox[3], LABEL_CROP_PAD) > img.w
    /\ rect[1] < bbox[1]
    /\ rect[3] = img.w

(***************************************************************************)
(* segment_text_lines                                                      *)
(***************************************************************************)
SEG_ROW_INK_FRACTION == <<2, 100>>
SEG_MIN_BAND_HEIGHT == 15
SEG_BAND_PAD_FRACTION == <<15, 100>>
SEG_COL_MIN_INK == 2

\* cv2.cvtColor(label_img, cv2.COLOR_BGR2GRAY) of one pixel <<b, g, r>>:
\* round(0.114 b + 0.587 g + 0.299 r) in 15-bit fixed point.
Gray(c) == (c[1] * 3735 + c[2] * 19235 + c[3] * 9798 + 16384) \div 32768

RECURSIVE LevelsOfRuns(_)
LevelsOfRuns(runs) ==
    IF runs = <<>> THEN {} ELSE {Gray(Head(runs).c)} \cup LevelsOfRuns(Tail(runs))

GrayLevels(image) ==
    UNION {LevelsOfRuns(image.stripes[k].runs) : k \in 1..Len(image.stripes)}

\* The threshold cv2.threshold(.., THRESH_OTSU) picks.  Otsu keeps the first
\* level of largest between-class variance and starts from 0: with one gray
\* level no split has two classes and the threshold stays 0; with two it is
\* the lower one; with more it is one of the levels under the highest, which
\* one depending on the histogram.
OtsuCandidates(image) ==
    LET L == GrayLevels(image)
        top == CHOOSE m \in L : \A x \in L : x <= m
        low == CHOOSE m \in L : \A x \in L : m <= x
    IN IF Cardinality(L) <= 1 THEN {0}
       ELSE IF Cardinality(L) = 2 THEN {low}
       ELSE L \ {top}

\* THRESH_BINARY_INV at threshold t: a pixel is 0 when its gray level exceeds
\* t and 255 (ink) otherwise.
Binarize(image, t) ==
    [image EXCEPT !.stripes =
        [k \in 1..Len(image.stripes) |->
            [image.stripes[k] EXCEPT !.runs =
                [j \in 1..Len(image.stripes[k].runs) |->
                    [n |-> image.stripes[k].runs[j].n,
                     c |-> IF Gray(image.stripes[k].runs[j].c) > t
                           THEN 0 ELSE 255]]]]]

\* np.sum(row) / 255.0 of one row of the binary image
RECURSIVE RowInk(_)
RowInk(runs) ==
    IF runs = <<>> THEN 0
    ELSE (IF Head(runs).c = 255 THEN Head(runs).n ELSE 0) + RowInk(Tail(runs))

\* text_rows = h_proj > label_img.shape[1] * SEG_ROW_INK_FRACTION
RECURSIVE TextRowsOfStripes(_, _)
TextRowsOfStripes(stripes, w) ==
    IF stripes = <<>> THEN <<>>
    ELSE LET is_text == RowInk(Head(stripes).runs) * SEG_ROW_INK_FRACTION[2]
                            > w * SEG_ROW_INK_FRACTION[1]
         IN [k \in 1..Head(stripes).n |-> is_text]
            \o TextRowsOfStripes(Tail(stripes), w)

TextRowsOf(bin) == TextRowsOfStripes(bin.stripes, bin.w)

\* The band loop closing a band one row late: the first row after it is taken in.
RECURSIVE BandScanLate(_, _, _, _, _)
BandScanLate(rows, i, in_band, band_start, acc) ==
    IF i >= Len(rows)
    THEN IF in_band THEN Append(acc, <<band_start, Len(rows)>>) ELSE acc
    ELSE IF rows[i + 1] /\ ~in_band THEN BandScanLate(rows, i + 1, TRUE, i, acc)
    ELSE IF ~rows[i + 1] /\ in_band
    THEN BandScanLate(rows, i + 1, FALSE, band_start,
                      Append(acc, <<band_start, i + 1>>))
    ELSE BandScanLate(rows, i + 1, in_band, band_start, acc)

\* for i, is_text in enumerate(text_rows): ... ; if in_band: bands.append(...)
\* i is the 0-based row, a band <<start, end>> covers rows start..end-1.
RECURSIVE BandScan(_, _, _, _, _)
BandScan(rows, i, in_band, band_start, acc) ==
    IF i >= Len(rows)
    THEN IF in_band THEN Append(acc, <<band_start, Len(rows)>>) ELSE acc
    ELSE IF rows[i + 1] /\ ~in_band THEN BandScan(rows, i + 1, TRUE, i, acc)
    ELSE IF ~rows[i + 1] /\ in_band
    THEN BandScan(rows, i + 1, FALSE, band_start, Append(acc, <<band_start, i>>))
    ELSE BandScan(rows, i + 1, in_band, band_start, acc)

GroupBands(rows) == BandScan(rows, 0, FALSE, 0, <<>>)

\* the pixel of column c (0-based) of a row
RECURSIVE PixelAt(_, _)
PixelAt(runs, c) ==
    IF c < Head(runs).n THEN Head(runs).c ELSE PixelAt(Tail(runs), c - Head(runs).n)

\* np.sum(band_bin, axis=0) / 255.0 at column c
RECURSIVE ColInk(_, _)
ColInk(stripes, c) ==
    IF stripes = <<>> THEN 0
    ELSE (IF PixelAt(Head(stripes).runs, c) = 255 THEN Head(stripes).n ELSE 0)
         + ColInk(Tail(stripes), c)

\* One iteration of the loop over bands: None when the band is dropped, else
\* the bounds <<x1, y1, x2, y2>> of label_img[y1:y2, x1:x2].
BandCrop(bin, band) ==
    LET band_h == band[2] - band[1]
        v_pad == Max(5, IntOfProduct(band_h, SEG_BAND_PAD_FRACTION))
        y1 == Max(0, band[1] - v_pad)
        y2 == Min(bin.h, band[2] + v_pad)
        band_bin == SliceRle(bin.stripes, band[1], band[2])
        text_cols == {c \in 0..(bin.w - 1) : ColInk(band_bin, c) > SEG_COL_MIN_INK}
        first == CHOOSE c \in text_cols : \A d \in text_cols : c <= d
        last == CHOOSE c \in text_cols : \A d \in text_cols : d <= c
    IN IF band_h < SEG_MIN_BAND_HEIGHT THEN None
       ELSE IF text_cols = {} THEN None
       ELSE <<Max(0, first - 10), y1, Min(bin.w, last + 10), y2>>

RECURSIVE CropsOfBands(_, _)
CropsOfBands(bin, bs) ==
    IF bs = <<>> THEN <<>>
    ELSE LET r == BandCrop(bin, Head(bs))
         IN (IF r = None THEN <<>> ELSE <<r>>) \o CropsOfBands(bin, Tail(bs))

\* segment_text_lines(label_img), t being the threshold Otsu picked
segment_text_lines(image, t) ==
    LET bin == Binarize(image, t)
    IN CropsOfBands(bin, GroupBands(TextRowsOf(bin)))

\* The labels of the segmenter's runs.  A label is laid out as stripes on a
\* paper colour p with ink colour k: blank paper, a text line (ink in columns
\* 10..39), a bar of ink across the label, one smudged pixel, and a diagonal
\* stroke two pixels wide that moves two columns right on every row.
StripeRows(t, w, p, k) ==
    CASE t.kind = "bg" -> <<[n |-> t.n, runs |-> <<[n |-> w, c |-> p]>>]>>
      [] t.kind = "ink" ->
            <<[n |-> t.n, runs |-> <<[n |-> 10, c |-> p], [n |-> 30, c |-> k],
                                     [n |-> w - 40, c |-> p]>>]>>
      [] t.kind = "bar" -> <<[n |-> t.n, runs |-> <<[n |-> w, c |-> k]>>]>>
      [] t.kind = "thin" ->
            <<[n |-> t.n, runs |-> <<[n |-> 5, c |-> p], [n |-> 1, c |-> Dark],
                                     [n |-> w - 6, c |-> p]>>]>>
      [] t.kind = "diag" ->
            [r \in 1..t.n |->
                [n |-> 1, runs |-> <<[n |-> 2 * r - 1, c |-> p], [n |-> 2, c |-> k],
                                     [n |-> w - 2 * r - 1, c |-> p]>>]]

RECURSIVE StripesOfLayout(_, _, _, _)
StripesOfLayout(lay, w, p, k) ==
    IF lay = <<>> THEN <<>>
    ELSE StripeRows(Head(lay), w, p, k) \o StripesOfLayout(Tail(lay), w, p, k)

MkLabel(w, scheme, lay) ==
    LET st == StripesOfLayout(lay, w, scheme[1], scheme[2])
    IN [w |-> w, h |-> SumN(st), stripes |-> st]

SegStripeTypes ==
    { [kind |-> "bg", n |-> 12], [kind |-> "thin", n |-> 1],
      [kind |-> "ink", n |-> 14], [kind |-> "ink", n |-> 16],
      [kind |-> "diag", n |-> 16],
      [kind |-> "bar", n |-> 2], [kind |-> "bar", n |-> 3] }
SegSchemes == {<<White, Black>>, <<Pink, Dark>>}
SegWidths == {60}
\* Layouts: two equal stripes in a row being one taller stripe, none repeats.
SegLayouts ==
    {lay \in SeqUpTo(SegStripeTypes, MaxStripes) \ {<<>>} :
        \A k \in 1..(Len(lay) - 1) : lay[k] # lay[k + 1]}
UniformLabels == {Uniform(w, h, c) : w \in SegWidths, h \in {10, 20}, c \in Palette}
SegLabels ==
    UniformLabels \cup
    {MkLabel(w, sch, lay) : w \in SegWidths, sch \in SegSchemes,
                            lay \in SegLayouts}

SegInit ==
    /\ pc = "seg_start"
    /\ label_img \in SegLabels
    /\ img = NoImage /\ contours = <<>> /\ bbox = None /\ best_area = 0
    /\ rect = <<>> /\ binary = NoImage /\ text_rows = <<>> /\ bands = <<>>
    /\ line_crops = <<>> /\ idx = 0 /\ resp = <<>> /\ output = <<>> /\ path = ""
    /\ calls = <<>> /\ result = NoResult

\* gray, Otsu, binary, h_proj, text_rows
SegBinarize ==
    /\ pc = "seg_start"
    /\ \E t \in OtsuCandidates(label_img) :
          /\ binary' = Binarize(label_img, t)
          /\ text_rows' = TextRowsOf(Binarize(label_img, t))
    /\ pc' = "seg_group"
    /\ UNCHANGED <<img, contours, bbox, best_area, rect, label_img, bands,
                   line_crops, idx, resp, output, path, calls, result>>

\* the loop over text_rows that groups them into bands
SegGroupBands ==
    /\ pc = "seg_group"
    /\ bands' = GroupBands(text_rows)
    /\ line_crops' = <<>> /\ idx' = 1
    /\ pc' = "seg_bands"
    /\ UNCHANGED <<img, contours, bbox, best_area, rect, label_img, binary,
                   text_rows, resp, output, path, calls, result>>

\* for y_start, y_end in bands: one iteration
SegBand ==
    /\ pc = "seg_bands" /\ idx <= Len(bands)
    /\ LET r == BandCrop(binary, bands[idx])
       IN line_crops' = IF r = None THEN line_crops ELSE Append(line_crops, r)
    /\ idx' = idx + 1
    /\ UNCHANGED <<pc, img, contours, bbox, best_area, rect, label_img, binary,
                   text_rows, bands, resp, output, path, calls, result>>

\* return line_crops
SegReturn ==
    /\ pc = "seg_bands" /\ idx > Len(bands)
    /\ pc' = "seg_done"
    /\ UNCHANGED <<img, contours, bbox, best_area, rect, label_img, binary,
                   text_rows, bands, line_crops, idx, resp, output, path, calls,
                   result>>

SegNext == SegBinarize \/ SegGroupBands \/ SegBand \/ SegReturn

SpecSeg == SegInit /\ [][SegNext]_vars

\* Every pixel of the image has the same colour.
IsBlank(image) ==
    \A k \in 1..Len(image.stripes) : \A j \in 1..Len(image.stripes[k].runs) :
        image.stripes[k].runs[j].c = image.stripes[1].runs[1].c

\* C6: on a blank image, whatever its one colour, segment_text_lines returns
\* no line crops.
C6_BlankImageYieldsNoLines ==
    (pc = "seg_done" /\ IsBlank(label_img)) => line_crops = <<>>

\* The rows of the binary image, pixel by pixel.
RECURSIVE ExpandRuns(_)
ExpandRuns(runs) ==
    IF runs = <<>> THEN <<>>
    ELSE [j \in 1..Head(runs).n |-> Head(runs).c] \o ExpandRuns(Tail(runs))
RECURSIVE ExpandStripes(_)
ExpandStripes(stripes) ==
    IF stripes = <<>> THEN <<>>
    ELSE LET row == ExpandRuns(Head(stripes).runs)
         IN [j \in 1..Head(stripes).n |-> row] \o ExpandStripes(Tail(stripes))

IsTextRow(r) == text_rows[r + 1]
RunStarts ==
    {s \in 0..(Len(text_rows) - 1) : IsTextRow(s) /\ (s = 0 \/ ~IsTextRow(s - 1))}
RunEnd(s) ==
    CHOOSE e \in (s + 1)..Len(text_rows) :
        /\ \A r \in s..(e - 1) : IsTextRow(r)
        /\ e = Len(text_rows) \/ ~IsTextRow(e)
\* the maximal runs of consecutive text rows, as <<first row, last row + 1>>
MaximalRuns == {<<s, RunEnd(s)>> : s \in RunStarts}

InkInColumn(grid, band, c) ==
    Cardinality({r \in (band[1] + 1)..band[2] : grid[r][c + 1] = 255})
SurvivesIn(grid, band) ==
    /\ band[2] - band[1] >= 15
    /\ \E c \in 0..(binary.w - 1) : InkInColumn(grid, band, c) > 2
PadOf(band) == Max(5, (15 * (band[2] - band[1])) \div 100)

\* C7: the bands are exactly the maximal runs of text rows, in increasing row
\* order and pairwise disjoint, and line crop k is cut from the k-th band of
\* height >= 15 that has a column of ink count > 2, its vertical extent being
\* [max(0, start - pad), min(H, end + pad)].
C7_CropsFollowBandsTopToBottom ==
    /\ pc \in {"seg_bands", "seg_done"} =>
          /\ {bands[k] : k \in 1..Len(bands)} = MaximalRuns
          /\ Len(bands) = Cardinality(MaximalRuns)
          /\ \A k \in 1..(Len(bands) - 1) : bands[k][2] < bands[k + 1][1]
    /\ pc = "seg_done" =>
          LET grid == ExpandStripes(binary.stripes)
              Survives(band) == SurvivesIn(grid, band)
              kept == SelectSeq(bands, Survives)
          IN /\ Len(line_crops) = Len(kept)
             /\ \A k \in 1..Len(kept) :
                   /\ line_crops[k][2] = Max(0, kept[k][1] - PadOf(kept[k]))
                   /\ line_crops[k][4] = Min(binary.h, kept[k][2] + PadOf(kept[k]))
                   /\ line_crops[k][2] >= kept[k][1] - PadOf(kept[k])
                   /\ line_crops[k][4] <= kept[k][2] + PadOf(kept[k])
                   /\ 0 <= line_crops[k][1] /\ line_crops[k][1] < line_crops[k][3]
                   /\ line_crops[k][3] <= binary.w

\* Two well-separated text bands pass the filters: two crops, the upper
\* band's first, each padded beyond its band without reaching the other.
C7_Witness ==
    /\ pc = "seg_done"
    /\ Len(bands) = 2 /\ Len(line_crops) = 2
    /\ line_crops[1][4] > bands[1][2] /\ line_crops[2][2] < bands[2][1]
    /\ line_crops[1][4] <= line_crops[2][2]

(***************************************************************************)
(* What the recognition collaborators return.  A Python value is a number  *)
(* (n, in hundredths), a string or None.                                   *)
(***************************************************************************)
Num(n) == [k |-> "num", n |-> n, s |-> ""]
Str(s) == [k |-> "str", n |-> 0, s |-> s]
PyNone == [k |-> "none", n |-> 0, s |-> ""]

\* The strings float() parses, among those of the model.
FloatLiteral == ("0.75" :> 75) @@ ("0.5" :> 50)
\* The numbers of the model as str() prints them.
NumRepr == (0 :> "0.0") @@ (50 :> "0.5") @@ (75 :> "0.75") @@ (90 :> "0.9")

\* float(v): the value, or the exception raised
PyFloat(v) ==
    CASE v.k = "num" -> [ok |-> TRUE, v |-> v.n, err |-> ""]
      [] v.k = "str" ->
            IF v.s \in DOMAIN FloatLiteral
            THEN [ok |-> TRUE, v |-> FloatLiteral[v.s], err |-> ""]
            ELSE [ok |-> FALSE, v |-> 0, err |-> "ValueError"]
      [] v.k = "none" -> [ok |-> FALSE, v |-> 0, err |-> "TypeError"]

\* str(v)
PyStr(v) ==
    CASE v.k = "str" -> v.s
      [] v.k = "num" -> NumRepr[v.n]
      [] v.k = "none" -> "None"

\* bool(v)
Truthy(v) ==
    CASE v.k = "str" -> v.s # ""
      [] v.k = "num" -> v.n # 0
      [] v.k = "none" -> FALSE

\* What a loop hands back: the items collected, or the exception raised.
Ok(items) == [ok |-> TRUE, err |-> "", items |-> items]
Raise(e) == [ok |-> FALSE, err |-> e, items |-> <<>>]

Item(box, text, confidence) == [box |-> box, text |-> text, confidence |-> confidence]

\* [[float(p[0]), float(p[1])] for p in raw_box]
FloatBox(raw_box) == [k \in 1..Len(raw_box) |-> <<raw_box[k][1], raw_box[k][2]>>]

(***************************************************************************)
(* run_fallback_ocr: the loop over the pages of ocr_fallback.predict(img). *)
(* A page is [shape, has_polys, dt_polys, rec_texts, rec_scores, lines]:   *)
(* a mapping ("dict"), a legacy list of lines ("list") or anything else.   *)
(* A legacy line is [len, box, rec]: len(line), line[0] and line[1].       *)
(***************************************************************************)
\* The mapping branch taking the count from the texts alone.
RECURSIVE DictLoopByTexts(_, _, _)
DictLoopByTexts(page, k, acc) ==
    LET boxes == IF page.has_polys THEN page.dt_polys ELSE <<>>
        count == Len(page.rec_texts)
    IN IF k > count THEN Ok(acc)
       ELSE IF k > Len(page.rec_scores) THEN Raise("IndexError")
       ELSE LET raw_box == IF k <= Len(boxes) THEN boxes[k] ELSE <<>>
                conf == PyFloat(page.rec_scores[k])
            IN IF ~conf.ok THEN Raise(conf.err)
               ELSE DictLoopByTexts(page, k + 1,
                        Append(acc, Item(FloatBox(raw_box),
                                         Str(PyStr(page.rec_texts[k])), conf.v)))

\* for idx in range(count): ..., k = idx + 1
RECURSIVE DictLoop(_, _, _)
DictLoop(page, k, acc) ==
    LET boxes == IF page.has_polys THEN page.dt_polys ELSE <<>>
        count == Min(Len(page.rec_texts), Len(page.rec_scores))
    IN IF k > count THEN Ok(acc)
       ELSE LET raw_box == IF k <= Len(boxes) THEN boxes[k] ELSE <<>>
                conf == PyFloat(page.rec_scores[k])
            IN IF ~conf.ok THEN Raise(conf.err)
               ELSE DictLoop(page, k + 1,
                        Append(acc, Item(FloatBox(raw_box),
                                         Str(PyStr(page.rec_texts[k])), conf.v)))

\* for line in page: if len(line) >= 2: ...
RECURSIVE ListLoop(_, _)
ListLoop(lines, acc) ==
    IF lines = <<>> THEN Ok(acc)
    ELSE LET line == Head(lines)
         IN IF line.len < 2 THEN ListLoop(Tail(lines), acc)
            ELSE IF Len(line.rec) < 2 THEN Raise("IndexError")
            ELSE LET conf == PyFloat(line.rec[2])
                 IN IF ~conf.ok THEN Raise(conf.err)
                    ELSE ListLoop(Tail(lines),
                             Append(acc, Item(FloatBox(line.box), line.rec[1], conf.v)))

\* the body of `for page in ocr_fallback.predict(img)` on one page
NormalizePage(page, acc) ==
    CASE page.shape = "dict" -> DictLoop(page, 1, acc)
      [] page.shape = "list" -> ListLoop(page.lines, acc)
      [] OTHER -> Ok(acc)

RECURSIVE NormalizePages(_, _)
NormalizePages(pages, acc) ==
    IF pages = <<>> THEN Ok(acc)
    ELSE LET r == NormalizePage(Head(pages), acc)
         IN IF r.ok THEN NormalizePages(Tail(pages), r.items) ELSE r

Poly1 == <<(<<0, 0>>), (<<10, 0>>), (<<10, 5>>), (<<0, 5>>)>>
Poly2 == <<(<<0, 8>>), (<<12, 8>>), (<<12, 14>>), (<<0, 14>>)>>

DictPage(has_polys, polys, texts, scores) ==
    [shape |-> "dict", has_polys |-> has_polys, dt_polys |-> polys,
     rec_texts |-> texts, rec_scores |-> scores, lines |-> <<>>]
ListPage(lines) ==
    [shape |-> "list", has_polys |-> FALSE, dt_polys |-> <<>>, rec_texts |-> <<>>,
     rec_scores |-> <<>>, lines |-> lines]
OtherPage ==
    [shape |-> "other", has_polys |-> FALSE, dt_polys |-> <<>>, rec_texts |-> <<>>,
     rec_scores |-> <<>>, lines |-> <<>>]
Line(len, box, rec) == [len |-> len, box |-> box, rec |-> rec]

\* The pages of the normaliser's runs.
TextVals == {Str("A"), PyNone}
ScoreVals == {Num(90), Num(50), Str("n/a")}
PolyLists == {[k \in 1..n |-> IF k % 2 = 1 THEN Poly1 ELSE Poly2] : n \in 0..MaxLen}
DictPages ==
    {DictPage(TRUE, ps, ts, ss) :
        ps \in PolyLists, ts \in SeqUpTo(TextVals, MaxLen), ss \in SeqUpTo(ScoreVals, MaxLen)}
    \cup {DictPage(FALSE, <<>>, ts, ss) :
        ts \in SeqUpTo(TextVals, MaxLen), ss \in SeqUpTo(ScoreVals, MaxLen)}
LineVals ==
    { Line(2, Poly1, <<Str("A"), Num(90)>>),
      Line(3, Poly2, <<Str("B"), Str("0.75")>>),
      Line(1, Poly1, <<>>),
      Line(2, Poly1, <<Str("C"), Str("n/a")>>),
      Line(2, Poly2, <<Str("D")>>) }
ListPages == {ListPage(ls) : ls \in SeqUpTo(LineVals, MaxLen)}
\* The pages of responses of several pages.
SmallPages ==
    { DictPage(TRUE, <<Poly1>>, <<Str("A"), Str("B")>>, <<Num(90), Num(50)>>),
      DictPage(FALSE, <<>>, <<Str("A"), Str("B"), Str("C")>>, <<Num(50), Num(90)>>),
      DictPage(TRUE, <<Poly1, Poly2>>, <<Str("A"), Str("B")>>, <<Num(90), PyNone>>),
      ListPage(<<Line(2, Poly1, <<Str("A"), Num(90)>>),
                 Line(1, Poly2, <<>>),
                 Line(2, Poly2, <<Str("B"), Str("0.5")>>)>>),
      OtherPage }
FallbackResponses ==
    {<<p>> : p \in DictPages \cup ListPages} \cup SeqUpTo(SmallPages, MaxPages)

NormInit ==
    /\ pc = "fb_loop"
    /\ resp \in FallbackResponses
    /\ idx = 1 /\ output = <<>>
    /\ img = NoImage /\ contours = <<>> /\ bbox = None /\ best_area = 0
    /\ rect = <<>> /\ label_img = NoImage /\ binary = NoImage /\ text_rows = <<>>
    /\ bands = <<>> /\ line_crops = <<>> /\ path = "" /\ calls = <<>>
    /\ result = NoResult

\* one page of the loop, the page being handled to its end
NormPage ==
    /\ pc = "fb_loop" /\ idx <= Len(resp)
    /\ NormalizePage(resp[idx], output).ok
    /\ output' = NormalizePage(resp[idx], output).items
    /\ idx' = idx + 1
    /\ UNCHANGED <<pc, img, contours, bbox, best_area, rect, label_img, binary,
                   text_rows, bands, line_crops, resp, path, calls, result>>

\* one page of the loop, an entry of the page raising
NormPageRaises ==
    /\ pc = "fb_loop" /\ idx <= Len(resp)
    /\ ~NormalizePage(resp[idx], output).ok
    /\ pc' = "fb_raised"
    /\ result' = [kind |-> "raise", err |-> NormalizePage(resp[idx], output).err,
                  results |-> <<>>, path |-> ""]
    /\ UNCHANGED <<img, contours, bbox, best_area, rect, label_img, binary,
                   text_rows, bands, line_crops, idx, resp, output, path, calls>>

\* return output
NormReturn ==
    /\ pc = "fb_loop" /\ idx > Len(resp)
    /\ pc' = "fb_done"
    /\ result' = [kind |-> "return", err |-> "", results |-> output, path |-> ""]
    /\ UNCHANGED <<img, contours, bbox, best_area, rect, label_img, binary,
                   text_rows, bands, line_crops, idx, resp, output, path, calls>>

NormNext == NormPage \/ NormPageRaises \/ NormReturn

SpecNorm == NormInit /\ [][NormNext]_vars

\* The items the claim promises for a mapping page: one per index up to the
\* shorter of texts and confidences, with an empty polygon past the polygons.
PromisedDictItems(page) ==
    [i \in 1..Min(Len(page.rec_texts), Len(page.rec_scores)) |->
        [box |-> IF page.has_polys /\ i <= Len(page.dt_polys)
                 THEN page.dt_polys[i] ELSE <<>>,
         text |-> Str(PyStr(page.rec_texts[i])),
         confidence |-> PyFloat(page.rec_scores[i]).v]]
RECURSIVE PromisedDictOutput(_)
PromisedDictOutput(pages) ==
    IF pages = <<>> THEN <<>>
    ELSE PromisedDictItems(Head(pages)) \o PromisedDictOutput(Tail(pages))
Unparseable(v) == v.k = "none" \/ (v.k = "str" /\ v.s \notin {"0.75", "0.5"})

\* C3: for mapping pages run_fallback_ocr emits exactly min(len(texts),
\* len(confidences)) items per page, item i carrying texts[i] and
\* confidences[i] in index order with an empty polygon when i >= len(polygons);
\* it raises only on a confidence float() rejects, never on a length mismatch.
C3_MappingPageTruncatesToShorter ==
    /\ (/\ pc \in {"fb_loop", "fb_done"}
        /\ \A k \in 1..(idx - 1) : resp[k].shape = "dict")
       => output = PromisedDictOutput(SubSeq(resp, 1, idx - 1))
    /\ (pc = "fb_raised" /\ resp[idx].shape = "dict")
       => \E i \in 1..Min(Len(resp[idx].rec_texts), Len(resp[idx].rec_scores)) :
             Unparseable(resp[idx].rec_scores[i])

\* A page of 3 texts, 2 confidences and fewer polygons gave 2 items, the
\* second without a polygon.
C3_Witness ==
    /\ pc = "fb_done" /\ Len(resp) = 1 /\ resp[1].shape = "dict"
    /\ Len(resp[1].rec_texts) = 3 /\ Len(resp[1].rec_scores) = 2
    /\ Len(resp[1].dt_polys) = 1
    /\ resp[1].rec_texts[1] # resp[1].rec_texts[2]
    /\ resp[1].rec_scores[1] # resp[1].rec_scores[2]
    /\ Len(output) = 2 /\ output[1].box # <<>> /\ output[2].box = <<>>

\* An entry is malformed when its text or confidence is missing or does not
\* parse; the items the claim promises are those of the other entries.
MalformedEntry(page, i) ==
    \/ Unparseable(page.rec_scores[i])
    \/ page.rec_texts[i].k = "none"
WellFormedIndices(page) ==
    {i \in 1..Len(page.rec_texts) : ~MalformedEntry(page, i)}
RECURSIVE PromisedSkipping(_, _)
PromisedSkipping(page, i) ==
    IF i > Len(page.rec_texts) THEN <<>>
    ELSE (IF MalformedEntry(page, i) THEN <<>>
          ELSE <<PromisedDictItems(page)[i]>>) \o PromisedSkipping(page, i + 1)

\* C4: a response with one malformed entry among well-formed ones is
\* normalised without raising, to the items of the well-formed entries in
\* their order.
C4_MalformedEntrySkipped ==
    (/\ pc \in {"fb_done", "fb_raised"}
     /\ Len(resp) = 1 /\ resp[1].shape = "dict"
     /\ Len(resp[1].rec_texts) = Len(resp[1].rec_scores)
     /\ Cardinality(WellFormedIndices(resp[1])) = Len(resp[1].rec_texts) - 1
     /\ WellFormedIndices(resp[1]) # {})
    => (pc = "fb_done" /\ output = PromisedSkipping(resp[1], 1))

(***************************************************************************)
(* run_rec_on_lines: a page of rec_model.predict(crop) is                  *)
(* [shape, has_text, rec_text, has_score, rec_score].                      *)
(***************************************************************************)
RecPage(shape, has_text, text, has_score, score) ==
    [shape |-> shape, has_text |-> has_text, rec_text |-> text,
     has_score |-> has_score, rec_score |-> score]

\* output.append(item), by a slip at the front of the list
output_insert_front(acc, item) == <<item>> \o acc

\* output.append(item)
output_append(acc, item) == Append(acc, item)

\* for page in rec_model.predict(crop): ...
RECURSIVE RecPagesLoop(_, _)
RecPagesLoop(pages, acc) ==
    IF pages = <<>> THEN Ok(acc)
    ELSE LET page == Head(pages)
             text == IF page.has_text THEN page.rec_text ELSE Str("")
             score == IF page.has_score THEN page.rec_score ELSE Num(0)
             conf == PyFloat(score)
         IN IF page.shape # "dict" THEN RecPagesLoop(Tail(pages), acc)
            ELSE IF ~Truthy(text) THEN RecPagesLoop(Tail(pages), acc)
            ELSE IF ~conf.ok THEN Raise(conf.err)
            ELSE RecPagesLoop(Tail(pages),
                     output_append(acc, Item(<<>>, Str(PyStr(text)), conf.v)))

RecOkA == RecPage("dict", TRUE, Str("A"), TRUE, Num(90))
RecOkB == RecPage("dict", TRUE, Str("B"), TRUE, Num(50))
RecEmpty == RecPage("dict", TRUE, Str(""), TRUE, Num(90))
RecNoText == RecPage("dict", FALSE, PyNone, TRUE, Num(90))
RecNoScore == RecPage("dict", TRUE, Str("C"), FALSE, PyNone)
RecBadScore == RecPage("dict", TRUE, Str("D"), TRUE, Str("n/a"))
RecOther == RecPage("other", FALSE, PyNone, FALSE, PyNone)
RecResponses ==
    { <<>>, <<RecOkA>>, <<RecOkB>>, <<RecEmpty>>, <<RecNoText>>, <<RecNoScore>>,
      <<RecBadScore>>, <<RecOther, RecOkA>>, <<RecOkB, RecOkA>>,
      <<RecOkA, RecBadScore>> }

(***************************************************************************)
(* process_image.  calls is the log of the stages and collaborators        *)
(* invoked: [fn, arg, k, w, h], arg naming the image passed ("photo",      *)
(* "label" or "crop"), k the crop's rank and w x h the image's size.       *)
(***************************************************************************)
MAX_IMAGE_SIDE == 1920

Stage(fn, arg, k, w, h) == [fn |-> fn, arg |-> arg, k |-> k, w |-> w, h |-> h]

\* The size run_fallback_ocr hands to ocr_fallback.predict: the longest side
\* capped to MAX_IMAGE_SIDE.
FallbackInputSize(image) ==
    LET longest_side == Max(image.h, image.w)
    IN IF longest_side > MAX_IMAGE_SIDE
       THEN <<Max(1, IntOfProduct(image.w, <<MAX_IMAGE_SIDE, longest_side>>)),
              Max(1, IntOfProduct(image.h, <<MAX_IMAGE_SIDE, longest_side>>))>>
       ELSE <<image.w, image.h>>

FallbackCall(image, arg) ==
    Stage("ocr_fallback.predict", arg, 0,
          FallbackInputSize(image)[1], FallbackInputSize(image)[2])

\* The uploads of the handler's runs: the photo, and the contours
\* cv2.findContours finds in its mask.
PhotoTwoLines ==
    MkLabel(60, <<Pink, Dark>>,
            <<[kind |-> "bg", n |-> 12], [kind |-> "ink", n |-> 16],
              [kind |-> "bg", n |-> 12], [kind |-> "ink", n |-> 16],
              [kind |-> "bg", n |-> 12]>>)
PhotoBlank == Uniform(60, 40, Pink)
PhotoPlain == Uniform(60, 40, White)
PhotoBig == Uniform(3840, 100, White)
Uploads ==
    { <<NoImage, <<>>>>,
      <<PhotoPlain, <<>>>>,
      <<PhotoBig, <<>>>>,
      <<PhotoTwoLines, <<>>>>,
      <<PhotoTwoLines, <<Contour(30, 0, 0, 6, 5)>>>>,
      <<PhotoTwoLines, <<Contour(4080, 0, 0, 60, 68)>>>>,
      <<PhotoTwoLines, <<Contour(30, 0, 0, 6, 5), Contour(2800, 2, 8, 56, 50)>>>>,
      <<PhotoTwoLines, <<Contour(2040, 0, 0, 60, 34)>>>>,
      <<PhotoBlank, <<Contour(2400, 0, 0, 60, 40)>>>>,
      <<PhotoBlank, <<Contour(1200, 10, 5, 40, 30)>>>> }
FbResponses == SeqUpTo(SmallPages, MaxPages)

Init ==
    /\ pc = "decode"
    /\ \E u \in Uploads : img = u[1] /\ contours = u[2]
    /\ bbox = None /\ best_area = 0 /\ rect = <<>> /\ label_img = NoImage
    /\ binary = NoImage /\ text_rows = <<>> /\ bands = <<>> /\ line_crops = <<>>
    /\ idx = 0 /\ resp = <<>> /\ output = <<>> /\ path = "" /\ calls = <<>>
    /\ result = NoResult

RaiseOf(e) == [kind |-> "raise", err |-> e, results |-> <<>>, path |-> ""]

\* img = cv2.imdecode(...), img is not None
Decode ==
    /\ pc = "decode" /\ img # NoImage
    /\ pc' = "detect"
    /\ UNCHANGED <<img, contours, bbox, best_area, rect, label_img, binary,
                   text_rows, bands, line_crops, idx, resp, output, path, calls,
                   result>>

\* if img is None: raise ValueError
DecodeFails ==
    /\ pc = "decode" /\ img = NoImage
    /\ pc' = "raised"
    /\ result' = RaiseOf("Unable to decode image from upload")
    /\ UNCHANGED <<img, contours, bbox, best_area, rect, label_img, binary,
                   text_rows, bands, line_crops, idx, resp, output, path, calls>>

\* bbox = detect_label_region(img)
Detect ==
    /\ pc = "detect"
    /\ bbox' = detect_label_region(img, contours)
    /\ calls' = Append(calls, Stage("detect_label_region", "photo", 0, img.w, img.h))
    /\ pc' = IF detect_label_region(img, contours) = None THEN "fb_photo" ELSE "crop"
    /\ UNCHANGED <<img, contours, best_area, rect, label_img, binary, text_rows,
                   bands, line_crops, idx, resp, output, path, result>>

\* label_img = crop_label(img, bbox)
Crop ==
    /\ pc = "crop"
    /\ rect' = crop_rect(img, bbox)
    /\ label_img' = crop_label(img, bbox)
    /\ calls' = Append(calls, Stage("crop_label", "photo", 0, img.w, img.h))
    /\ pc' = "segment"
    /\ UNCHANGED <<img, contours, bbox, best_area, binary, text_rows, bands,
                   line_crops, idx, resp, output, path, result>>

\* line_crops = segment_text_lines(label_img); if line_crops: ... else: ...
Segment ==
    /\ pc = "segment"
    /\ \E t \in OtsuCandidates(label_img) :
          /\ line_crops' = segment_text_lines(label_img, t)
          /\ pc' = IF segment_text_lines(label_img, t) # <<>> THEN "rec" ELSE "fb_label"
    /\ calls' = Append(calls, Stage("segment_text_lines", "label", 0,
                                    label_img.w, label_img.h))
    /\ idx' = 1
    /\ UNCHANGED <<img, contours, bbox, best_area, rect, label_img, binary,
                   text_rows, bands, resp, output, path, result>>

RecCall(k) ==
    Stage("rec_model.predict", "crop", k, line_crops[k][3] - line_crops[k][1],
          line_crops[k][4] - line_crops[k][2])

\* run_rec_on_lines, one crop: predict returns and its pages are collected
RecLine ==
    /\ pc = "rec" /\ idx <= Len(line_crops)
    /\ \E r \in RecResponses :
          /\ RecPagesLoop(r, output).ok
          /\ resp' = r
          /\ output' = RecPagesLoop(r, output).items
    /\ calls' = Append(calls, RecCall(idx))
    /\ idx' = idx + 1
    /\ UNCHANGED <<pc, img, contours, bbox, best_area, rect, label_img, binary,
                   text_rows, bands, line_crops, path, result>>

\* run_rec_on_lines, one crop: predict raises, or float(score) does
RecLineRaises ==
    /\ pc = "rec" /\ idx <= Len(line_crops)
    /\ \/ resp' = <<>> /\ result' = RaiseOf("rec_model.predict failed")
       \/ \E r \in RecResponses :
             /\ ~RecPagesLoop(r, output).ok
             /\ resp' = r
             /\ result' = RaiseOf(RecPagesLoop(r, output).err)
    /\ calls' = Append(calls, RecCall(idx))
    /\ pc' = "raised"
    /\ UNCHANGED <<img, contours, bbox, best_area, rect, label_img, binary,
                   text_rows, bands, line_crops, idx, output, path>>

\* run_rec_on_lines returns; path = "fast_seg_rec"
RecReturn ==
    /\ pc = "rec" /\ idx > Len(line_crops)
    /\ path' = "fast_seg_rec"
    /\ pc' = "respond"
    /\ UNCHANGED <<img, contours, bbox, best_area, rect, label_img, binary,
                   text_rows, bands, line_crops, idx, resp, output, calls, result>>

\* output = run_fallback_ocr(image); path = tag
FallbackReturns(image, arg, tag) ==
    /\ \E r \in FbResponses :
          /\ NormalizePages(r, <<>>).ok
          /\ resp' = r
          /\ output' = NormalizePages(r, <<>>).items
    /\ calls' = Append(calls, FallbackCall(image, arg))
    /\ path' = tag
    /\ pc' = "respond"
    /\ UNCHANGED <<img, contours, bbox, best_area, rect, label_img, binary,
                   text_rows, bands, line_crops, idx, result>>

\* run_fallback_ocr(image) raises: predict does, or an entry of a page does
FallbackRaises(image, arg) ==
    /\ \/ resp' = <<>> /\ result' = RaiseOf("ocr_fallback.predict failed")
       \/ \E r \in FbResponses :
             /\ ~NormalizePages(r, <<>>).ok
             /\ resp' = r
             /\ result' = RaiseOf(NormalizePages(r, <<>>).err)
    /\ calls' = Append(calls, FallbackCall(image, arg))
    /\ pc' = "raised"
    /\ UNCHANGED <<img, contours, bbox, best_area, rect, label_img, binary,
                   text_rows, bands, line_crops, idx, output, path>>

\* The no-lines branch handing the photo to the fallback.
FallbackNoLinesOnPhoto ==
    pc = "fb_label" /\ FallbackReturns(img, "photo", "fallback_no_lines")

\* The no-lines branch tagged as the no-label one.
FallbackNoLinesMistagged ==
    pc = "fb_label" /\ FallbackReturns(label_img, "label", "fallback_no_label")

\* bbox is None: run_fallback_ocr(img)
FallbackNoLabel ==
    pc = "fb_photo" /\ FallbackReturns(img, "photo", "fallback_no_label")

FallbackNoLabelRaises ==
    pc = "fb_photo" /\ FallbackRaises(img, "photo")

\* no line crops: run_fallback_ocr(label_img)
FallbackNoLines ==
    pc = "fb_label" /\ FallbackReturns(label_img, "label", "fallback_no_lines")

FallbackNoLinesRaises ==
    pc = "fb_label" /\ FallbackRaises(label_img, "label")

\* return {"results": output, "profiling": {"path": path, ...}}
Respond ==
    /\ pc = "respond"
    /\ result' = [kind |-> "ok", err |-> "", results |-> output, path |-> path]
    /\ pc' = "done"
    /\ UNCHANGED <<img, contours, bbox, best_area, rect, label_img, binary,
                   text_rows, bands, line_crops, idx, resp, output, path, calls>>

\* The handler answering an exception with what was collected before it.
RespondErrorPartial ==
    /\ pc = "raised"
    /\ result' = [kind |-> "error", err |-> result.err, results |-> output,
                  path |-> ""]
    /\ pc' = "done"
    /\ UNCHANGED <<img, contours, bbox, best_area, rect, label_img, binary,
                   text_rows, bands, line_crops, idx, resp, output, path, calls>>

\* except Exception as e: the 500 response {"error": str(e), "results": []}
RespondError ==
    /\ pc = "raised"
    /\ result' = [kind |-> "error", err |-> result.err, results |-> <<>>,
                  path |-> ""]
    /\ pc' = "done"
    /\ UNCHANGED <<img, contours, bbox, best_area, rect, label_img, binary,
                   text_rows, bands, line_crops, idx, resp, output, path, calls>>

Next ==
    \/ Decode \/ DecodeFails \/ Detect \/ Crop \/ Segment
    \/ RecLine \/ RecLineRaises \/ RecReturn
    \/ FallbackNoLabel \/ FallbackNoLabelRaises
    \/ FallbackNoLines \/ FallbackNoLinesRaises
    \/ Respond \/ RespondError

Spec == Init /\ [][Next]_vars

IsRecCall(c) == c.fn = "rec_model.predict"
IsFallbackCall(c) == c.fn = "ocr_fallback.predict"
\* a response went out for an upload that decoded
Answered == pc = "done" /\ img # NoImage

\* C1: the strategy tag of a successful response follows from the detector's
\* and the segmenter's outcomes alone: box and >= 1 line crops gives
\* fast_seg_rec, box and no line crops fallback_no_lines, no box
\* fallback_no_label.
C1_TagFollowsDetectorAndSegmenter ==
    (pc = "done" /\ result.kind = "ok") =>
        /\ result.path \in {"fast_seg_rec", "fallback_no_lines", "fallback_no_label"}
        /\ (bbox # None /\ line_crops # <<>>) => result.path = "fast_seg_rec"
        /\ (bbox # None /\ line_crops = <<>>) => result.path = "fallback_no_lines"
        /\ bbox = None => result.path = "fallback_no_label"

\* A label was found, no line was segmented, and the whole-label fallback
\* answered.
C1_Witness ==
    /\ pc = "done" /\ result.kind = "ok"
    /\ bbox # None /\ line_crops = <<>>
    /\ result.path = "fallback_no_lines" /\ result.results # <<>>

\* C2: when a recognition collaborator raises, the response is the error
\* shape with a message and no results, whatever was collected before, and no
\* collaborator is invoked after the failure.
C2_CollaboratorFailureIsRequestError ==
    /\ []((pc = "done" /\ result.kind = "error")
            => /\ result.results = <<>> /\ result.err # "" /\ result.path = ""
               /\ ~(\E i \in 1..Len(calls) : \E j \in 1..Len(calls) :
                       IsRecCall(calls[i]) /\ IsFallbackCall(calls[j])))
    /\ [][pc = "raised"
            => /\ pc' = "done" /\ calls' = calls
               /\ result' = [kind |-> "error", err |-> result.err,
                             results |-> <<>>, path |-> ""]]_vars

\* The line-only collaborator failed on the second crop after the first crop
\* had given an item: the response holds no item.
C2_Witness ==
    /\ pc = "done" /\ result.kind = "error"
    /\ result.err = "rec_model.predict failed"
    /\ Len(calls) = 5 /\ IsRecCall(calls[5]) /\ calls[5].k = 2
    /\ output # <<>> /\ result.results = <<>>

\* C9: on the fast path rec_model.predict is invoked once per line crop in
\* segmentation order, each invocation only appends to the output at most as
\* many items as it returned pages, and every item has an empty polygon.
C9_LinesRecognisedInOrder ==
    /\ [](LET rc == SelectSeq(calls, IsRecCall)
          IN /\ Len(rc) <= Len(line_crops)
             /\ \A j \in 1..Len(rc) : rc[j] = RecCall(j)
             /\ (pc \in {"respond", "done"} /\ path = "fast_seg_rec")
                   => /\ Len(rc) = Len(line_crops)
                      /\ \A i \in 1..Len(output) : output[i].box = <<>>)
    /\ [][(pc = "rec" /\ calls' # calls)
            => /\ calls' = Append(calls, RecCall(idx))
               /\ pc' = "rec" =>
                     /\ idx' = idx + 1
                     /\ Len(output') >= Len(output)
                     /\ Len(output') - Len(output) <= Len(resp')
                     /\ SubSeq(output', 1, Len(output)) = output]_vars

\* Two crops were recognised, the first giving the less confident item.
C9_Witness ==
    /\ pc = "done" /\ result.kind = "ok" /\ result.path = "fast_seg_rec"
    /\ Len(line_crops) = 2 /\ Len(SelectSeq(calls, IsRecCall)) = 2
    /\ Len(result.results) = 2
    /\ result.results[1].confidence < result.results[2].confidence

\* C10: the stages run in the order detector, extractor, segmenter,
\* recogniser; a request invokes one kind of recognition collaborator at
\* most; the full collaborator gets the photo exactly when no region was
\* found and the cropped label exactly when a region gave no lines; the
\* line-only collaborator runs only when a region gave lines, and then the
\* full one never does.
C10_OneRecogniserPerRequest ==
    /\ \A j \in 1..Len(calls) :
          /\ calls[j].fn = "detect_label_region" <=> j = 1
          /\ calls[j].fn = "crop_label" => j = 2
          /\ calls[j].fn = "segment_text_lines" => j = 3
          /\ IsRecCall(calls[j]) =>
                /\ j >= 4 /\ calls[2].fn = "crop_label"
                /\ calls[3].fn = "segment_text_lines"
                /\ bbox # None /\ line_crops # <<>>
          /\ IsFallbackCall(calls[j]) =>
                /\ j = Len(calls)
                /\ \A i \in 1..(j - 1) : ~IsFallbackCall(calls[i]) /\ ~IsRecCall(calls[i])
                /\ calls[j].arg = "photo" =>
                      j = 2 /\ bbox = None /\ calls[j] = FallbackCall(img, "photo")
                /\ calls[j].arg = "label" =>
                      /\ j = 4 /\ bbox # None /\ line_crops = <<>>
                      /\ calls[3].fn = "segment_text_lines"
                      /\ calls[j] = FallbackCall(label_img, "label")
    /\ Answered =>
          /\ bbox = None
                => calls[Len(calls)] = FallbackCall(img, "photo")
          /\ (bbox # None /\ line_crops = <<>>)
                => calls[Len(calls)] = FallbackCall(label_img, "label")
          /\ (bbox # None /\ line_crops # <<>>)
                => IsRecCall(calls[Len(calls)])

\* Lines were segmented and recognised to nothing: the response is empty and
\* the full collaborator was not invoked.
C10_Witness ==
    /\ Answered /\ result.kind = "ok" /\ result.path = "fast_seg_rec"
    /\ result.results = <<>>
    /\ Len(line_crops) = 2 /\ Len(calls) = 5

====
